---- MODULE Spec2Model ----
(***************************************************************************)
(* Model of analyze_heroes.py: a sequential report over data/heroes.json.  *)
(* The script loads the document, prints the hero total, runs the          *)
(* equipped-item census (old/new format counters, removed-item matches),   *)
(* prints the census summary, the inventory total and up to three sample   *)
(* heroes.  Every uncaught exception ends the run where it is raised.      *)
(*                                                                         *)
(* The document is a sequence of hero records in mapping (insertion)       *)
(* order; a hero's user id is its position, a slot's name is its position  *)
(* in the hero's equipped mapping.  The five emoji of REMOVED_ITEMS are    *)
(* written with ASCII names.                                               *)
(***************************************************************************)
EXTENDS Integers, Sequences, FiniteSets, TLC

(* ---------------- bounds of the explored inputs ---------------- *)
MaxHeroes == 2          \* heroes per document, census and inventory families
MaxSlots == 2           \* equipped slots per document, census family
MaxInv == 2             \* inventory items per document, inventory family
MaxSampleHeroes == 4    \* heroes per document, sample family

(* ---------------- program constants ---------------- *)
REMOVED_ITEMS == {"construction_worker", "supervillain", "detective", "bone", "llama"}
SAMPLE_SIZE == 3
BREAK_INDEX == 2
DEFAULT_MAX_ENERGY == 3

(* ---------------- JSON values held by slots and inventories ---------------- *)
Null == [t |-> "null", s |-> "", keys |-> {}, id |-> "", n |-> 0]
Str(x) == [t |-> "str", s |-> x, keys |-> {}, id |-> "", n |-> 0]
Dict(ks, ident) == [t |-> "dict", s |-> "", keys |-> ks, id |-> ident, n |-> 0]
Num(k) == [t |-> "num", s |-> "", keys |-> {}, id |-> "", n |-> k]

\* a truth test that only rejects None
TruthyNotNone(v) == v.t # "null"

\* Python truth value: None, "", {} and 0 are falsy
Truthy(v) ==
    CASE v.t = "null" -> FALSE
      [] v.t = "str" -> v.s # ""
      [] v.t = "dict" -> v.keys # {}
      [] v.t = "num" -> v.n # 0

\* isinstance(equipped, str) / isinstance(equipped, dict)
IsStr(v) == v.t = "str"
\* a bare else in place of the isinstance(equipped, dict) test
IsDictElse(v) == TRUE
IsDict(v) == v.t = "dict"

\* a get with a removed item as its default
DictGetIdDefaultBone(v) == IF "id" \in v.keys THEN Str(v.id) ELSE Str("bone")

\* dict.get('id'): the value under 'id', None when the key is absent
DictGetId(v) == IF "id" \in v.keys THEN Str(v.id) ELSE Null

\* x in REMOVED_ITEMS: equality against the five strings of the list
InRemoved(x) == x.t = "str" /\ x.s \in REMOVED_ITEMS

\* membership tested on legacy strings only
IsRemovedStrOnly(v) == v.t = "str" /\ v.s \in REMOVED_ITEMS

\* the membership tests of lines 24 and 29, by branch
IsRemoved(v) ==
    IF IsStr(v) THEN InRemoved(v)
    ELSE IF IsDict(v) THEN InRemoved(DictGetId(v))
    ELSE FALSE

\* any() over the classified values only
AnyClassified(slots) == \E k \in 1..Len(slots) :
    Truthy(slots[k]) /\ (IsStr(slots[k]) \/ IsDict(slots[k]))

\* any(hero['equipped'].values())
AnyTruthy(slots) == \E k \in 1..Len(slots) : Truthy(slots[k])

\* a lookup that reads a missing or malformed equipped as empty
EquippedNeverRaises(hero) == FALSE

\* hero['equipped'].values() raises: KeyError without the key,
\* AttributeError when the value is not a mapping
EquippedRaises(hero) == hero.equipped.kind # "map"
EquippedExc(hero) == IF hero.equipped.kind = "missing" THEN "KeyError" ELSE "AttributeError"

\* len(h['inventory']) raises: KeyError without the key, TypeError on null
InventoryRaises(hero) == hero.inventory.kind # "list"
InventoryExc(hero) == IF hero.inventory.kind = "missing" THEN "KeyError" ELSE "TypeError"

\* hero['level'] / hero['energy'] raise KeyError without the key
SampleRaises(hero) == ~hero.level.present \/ ~hero.energy.present

\* the default printed whatever the record holds
EffectiveMaxEnergyDefaultOnly(hero) == DEFAULT_MAX_ENERGY

\* hero.get('maxEnergy', 3)
EffectiveMaxEnergy(hero) == IF hero.maxEnergy.present THEN hero.maxEnergy.v ELSE DEFAULT_MAX_ENERGY

RECURSIVE SumInventoryEquippedOnly(_)
\* the sum taken over the heroes with equipped items only
SumInventoryEquippedOnly(d) ==
    IF d = <<>> THEN 0
    ELSE (IF AnyTruthy(d[1].equipped.slots) THEN Len(d[1].inventory.items) ELSE 0)
         + SumInventoryEquippedOnly(Tail(d))

RECURSIVE SumInventory(_)
\* sum(len(h['inventory']) for h in data.values())
SumInventory(d) ==
    IF d = <<>> THEN 0
    ELSE Len(d[1].inventory.items) + SumInventory(Tail(d))

Min(a, b) == IF a < b THEN a ELSE b

\* list(data.items())[:3]
SampleSlice(d) == SubSeq(d, 1, Min(Len(d), SAMPLE_SIZE))

(* ---------------- explored documents ---------------- *)
Present(x) == [present |-> TRUE, v |-> x]
Absent == [present |-> FALSE, v |-> 0]
EqMap(slots) == [kind |-> "map", slots |-> slots]
EqMissing == [kind |-> "missing", slots |-> <<>>]
EqNonMap == [kind |-> "nonmap", slots |-> <<>>]
InvList(items) == [kind |-> "list", items |-> items]
InvMissing == [kind |-> "missing", items |-> <<>>]
InvNull == [kind |-> "null", items |-> <<>>]

MkHero(eq, inv, lvl, en, mx) ==
    [equipped |-> eq, inventory |-> inv, level |-> lvl, energy |-> en, maxEnergy |-> mx]

ItemValues ==
    { Null, Str(""), Str("axe"), Str("construction_worker"),
      Dict({}, ""), Dict({"id", "rarity"}, "supervillain"), Dict({"id"}, "axe"),
      Dict({"rarity"}, ""), Num(7) }

InvItems == { Str("axe"), Str("construction_worker") }

RECURSIVE SumTo(_, _)
\* l[1] + ... + l[u]
SumTo(l, u) == IF u = 0 THEN 0 ELSE l[u] + SumTo(l, u - 1)

\* per hero, the kind of its equipped and the number of its slots: at most
\* `budget` slots in the whole document
CensusShapes(n, budget) ==
    { sh \in [kinds : [1..n -> { "map", "missing", "nonmap" }], lens : [1..n -> 0..budget]] :
        /\ \A u \in 1..n : sh.kinds[u] # "map" => sh.lens[u] = 0
        /\ SumTo(sh.lens, n) <= budget }

\* the document of shape sh whose slots hold, in order, the values of v
CensusDoc(n, sh, v) ==
    [ u \in 1..n |->
        MkHero([kind |-> sh.kinds[u],
                slots |-> [ sl \in 1..sh.lens[u] |-> v[SumTo(sh.lens, u - 1) + sl] ]],
               InvList(<<>>), Present(5), Present(2), Absent) ]

EqFew == { EqMap(<<Null>>), EqMap(<<Str("construction_worker")>>) }

\* per hero, the kind of its inventory and the number of its items: at most
\* `budget` items in the whole document
InventoryShapes(n, budget) ==
    { sh \in [kinds : [1..n -> { "list", "missing", "null" }], lens : [1..n -> 0..budget]] :
        /\ \A u \in 1..n : sh.kinds[u] # "list" => sh.lens[u] = 0
        /\ SumTo(sh.lens, n) <= budget }

\* the document of shape sh, equipped eq, whose inventories hold the items of v
InventoryDoc(n, sh, eq, v) ==
    [ u \in 1..n |->
        MkHero(eq[u],
               [kind |-> sh.kinds[u],
                items |-> [ m \in 1..sh.lens[u] |-> v[SumTo(sh.lens, u - 1) + m] ]],
               Present(5), Present(2), Absent) ]

SampleHeroes ==
    { MkHero(EqMap(<<Str("axe")>>), InvList(<<Str("axe")>>), lvl, Present(2), mx) :
        lvl \in { Absent, Present(5) }, mx \in { Absent, Present(5) } }
    \cup { MkHero(EqMap(<<Str("axe")>>), InvList(<<Str("axe")>>), Present(5), Absent, Absent) }

Ok(doc) == [kind |-> "ok", doc |-> doc]

\* data/heroes.json: absent, not JSON, or one of the explored documents
IsFile(f) ==
    \/ f \in { [kind |-> "missing", doc |-> <<>>], [kind |-> "invalid", doc |-> <<>>] }
    \/ \E n \in 0..MaxHeroes : \E sh \in CensusShapes(n, MaxSlots) :
          \E v \in [1..SumTo(sh.lens, n) -> ItemValues] :
             f = Ok(CensusDoc(n, sh, v))
    \/ \E n \in 0..MaxHeroes : \E sh \in InventoryShapes(n, MaxInv) :
          \E eq \in [1..n -> EqFew] : \E v \in [1..SumTo(sh.lens, n) -> InvItems] :
             f = Ok(InventoryDoc(n, sh, eq, v))
    \/ \E n \in 0..MaxSampleHeroes : \E d \in [1..n -> SampleHeroes] :
          f = Ok(d)

(* ---------------- state ---------------- *)
VARIABLES file, data, pc, i, j, heroes_with_items, old_format_count,
          new_format_count, removed_items_found, total_inventory_items, out, err

vars == <<file, data, pc, i, j, heroes_with_items, old_format_count,
          new_format_count, removed_items_found, total_inventory_items, out, err>>

NoErr == [exc |-> "none", line |-> 0, at |-> 0]
Raise(exc, line, at) == [exc |-> exc, line |-> line, at |-> at]

Init ==
    /\ IsFile(file)
    /\ data = <<>>
    /\ pc = "load"
    /\ i = 0
    /\ j = 0
    /\ heroes_with_items = 0
    /\ old_format_count = 0
    /\ new_format_count = 0
    /\ removed_items_found = <<>>
    /\ total_inventory_items = 0
    /\ out = <<>>
    /\ err = NoErr

(* ---------------- output lines ---------------- *)
TotalLine(n) == [k |-> "total", n |-> n]
OldFormatLine(u, slot, v) == [k |-> "old_format", u |-> u, slot |-> slot, v |-> v]
\* the detail line showing the id of a record instead of the record
RemovedLineIdOnly(m) ==
    [k |-> "removed_item", u |-> m[1], slot |-> m[2],
     v |-> IF m[3].t = "dict" THEN Str(m[3].id) ELSE m[3]]
RemovedLine(m) == [k |-> "removed_item", u |-> m[1], slot |-> m[2], v |-> m[3]]

RECURSIVE RemovedLines(_)
\* the loop of lines 37-38
RemovedLines(found) ==
    IF found = <<>> THEN <<>>
    ELSE <<RemovedLine(found[1])>> \o RemovedLines(Tail(found))

\* the detail lines printed ahead of the counts
SummaryLinesDetailFirst(hwi, old, new, found) ==
    RemovedLines(found) \o
    << [k |-> "heroes_with_items", n |-> hwi],
       [k |-> "old_count", n |-> old],
       [k |-> "new_count", n |-> new],
       [k |-> "removed_count", n |-> Len(found)] >>

\* lines 32-38
SummaryLines(hwi, old, new, found) ==
    << [k |-> "heroes_with_items", n |-> hwi],
       [k |-> "old_count", n |-> old],
       [k |-> "new_count", n |-> new],
       [k |-> "removed_count", n |-> Len(found)] >> \o RemovedLines(found)

InventoryLine(n) == [k |-> "inventory_total", n |-> n]
SampleHeaderLine == [k |-> "sample_header"]

\* lines 47-50
SampleBlock(u, hero) ==
    << [k |-> "sample_user", u |-> u],
       [k |-> "sample_stats", level |-> hero.level.v, energy |-> hero.energy.v,
        maxEnergy |-> EffectiveMaxEnergy(hero)],
       [k |-> "sample_equipped", equipped |-> hero.equipped.slots],
       [k |-> "sample_inventory", n |-> Len(hero.inventory.items)] >>

(* ---------------- steps ---------------- *)
\* lines 3-4, open and json.load succeed
Load ==
    /\ pc = "load"
    /\ file.kind = "ok"
    /\ data' = file.doc
    /\ pc' = "print_total"
    /\ UNCHANGED <<file, i, j, heroes_with_items, old_format_count, new_format_count,
                   removed_items_found, total_inventory_items, out, err>>

\* lines 3-4, open or json.load raises
LoadFail ==
    /\ pc = "load"
    /\ file.kind # "ok"
    /\ pc' = "failed"
    /\ err' = IF file.kind = "missing" THEN Raise("FileNotFoundError", 3, 0)
              ELSE Raise("JSONDecodeError", 4, 0)
    /\ UNCHANGED <<file, data, i, j, heroes_with_items, old_format_count, new_format_count,
                   removed_items_found, total_inventory_items, out>>

\* line 6, then the initialisations of lines 9-12
PrintTotal ==
    /\ pc = "print_total"
    /\ out' = Append(out, TotalLine(Len(data)))
    /\ heroes_with_items' = 0
    /\ old_format_count' = 0
    /\ new_format_count' = 0
    /\ removed_items_found' = <<>>
    /\ i' = 1
    /\ pc' = "census"
    /\ UNCHANGED <<file, data, j, total_inventory_items, err>>

\* lines 16-19, one hero: has_equipped, the counter, entry of the slot loop
CensusHero ==
    /\ pc = "census"
    /\ i <= Len(data)
    /\ ~EquippedRaises(data[i])
    /\ IF AnyTruthy(data[i].equipped.slots)
       THEN /\ heroes_with_items' = heroes_with_items + 1
            /\ j' = 1
            /\ pc' = "slots"
            /\ i' = i
       ELSE /\ i' = i + 1
            /\ UNCHANGED <<heroes_with_items, j, pc>>
    /\ UNCHANGED <<file, data, old_format_count, new_format_count, removed_items_found,
                   total_inventory_items, out, err>>

\* line 17 raises
CensusFail ==
    /\ pc = "census"
    /\ i <= Len(data)
    /\ EquippedRaises(data[i])
    /\ pc' = "failed"
    /\ err' = Raise(EquippedExc(data[i]), 17, i)
    /\ UNCHANGED <<file, data, i, j, heroes_with_items, old_format_count, new_format_count,
                   removed_items_found, total_inventory_items, out>>

\* lines 20-30, one slot of the current hero
CensusSlot ==
    /\ pc = "slots"
    /\ j <= Len(data[i].equipped.slots)
    /\ LET equipped == data[i].equipped.slots[j]
           last == j = Len(data[i].equipped.slots)
       IN /\ IF Truthy(equipped)
             THEN IF IsStr(equipped)
                  THEN /\ old_format_count' = old_format_count + 1
                       /\ removed_items_found' =
                            IF IsRemoved(equipped)
                            THEN Append(removed_items_found, <<i, j, equipped>>)
                            ELSE removed_items_found
                       /\ out' = Append(out, OldFormatLine(i, j, equipped))
                       /\ UNCHANGED new_format_count
                  ELSE IF IsDict(equipped)
                  THEN /\ new_format_count' = new_format_count + 1
                       /\ removed_items_found' =
                            IF IsRemoved(equipped)
                            THEN Append(removed_items_found, <<i, j, equipped>>)
                            ELSE removed_items_found
                       /\ UNCHANGED <<old_format_count, out>>
                  ELSE UNCHANGED <<old_format_count, new_format_count,
                                   removed_items_found, out>>
             ELSE UNCHANGED <<old_format_count, new_format_count,
                              removed_items_found, out>>
          /\ IF last
             THEN i' = i + 1 /\ j' = 0 /\ pc' = "census"
             ELSE i' = i /\ j' = j + 1 /\ pc' = "slots"
    /\ UNCHANGED <<file, data, heroes_with_items, total_inventory_items, err>>

\* lines 32-38, after the census loop
Summary ==
    /\ pc = "census"
    /\ i > Len(data)
    /\ out' = out \o SummaryLines(heroes_with_items, old_format_count,
                                  new_format_count, removed_items_found)
    /\ pc' = "inventory"
    /\ UNCHANGED <<file, data, i, j, heroes_with_items, old_format_count, new_format_count,
                   removed_items_found, total_inventory_items, err>>

FirstInventoryRaise(d) == CHOOSE k \in 1..Len(d) :
    InventoryRaises(d[k]) /\ \A m \in 1..(k - 1) : ~InventoryRaises(d[m])

\* lines 41-42
InventoryTotal ==
    /\ pc = "inventory"
    /\ \A k \in 1..Len(data) : ~InventoryRaises(data[k])
    /\ total_inventory_items' = SumInventory(data)
    /\ out' = Append(out, InventoryLine(SumInventory(data)))
    /\ pc' = "sample_header"
    /\ UNCHANGED <<file, data, i, j, heroes_with_items, old_format_count, new_format_count,
                   removed_items_found, err>>

\* line 41 raises at the first hero whose inventory cannot be measured
InventoryFail ==
    /\ pc = "inventory"
    /\ \E k \in 1..Len(data) : InventoryRaises(data[k])
    /\ pc' = "failed"
    /\ err' = Raise(InventoryExc(data[FirstInventoryRaise(data)]), 41,
                    FirstInventoryRaise(data))
    /\ UNCHANGED <<file, data, i, j, heroes_with_items, old_format_count, new_format_count,
                   removed_items_found, total_inventory_items, out>>

\* line 45, and entry of the loop of line 46
SampleHeader ==
    /\ pc = "sample_header"
    /\ out' = Append(out, SampleHeaderLine)
    /\ i' = 1
    /\ pc' = IF SampleSlice(data) = <<>> THEN "done" ELSE "sample"
    /\ UNCHANGED <<file, data, j, heroes_with_items, old_format_count, new_format_count,
                   removed_items_found, total_inventory_items, err>>

\* lines 46-52, one sampled hero; the enumerate index is i - 1
SampleHero ==
    /\ pc = "sample"
    /\ i <= Len(SampleSlice(data))
    /\ ~SampleRaises(SampleSlice(data)[i])
    /\ out' = out \o SampleBlock(i, SampleSlice(data)[i])
    /\ IF i - 1 >= BREAK_INDEX \/ i = Len(SampleSlice(data))
       THEN pc' = "done" /\ i' = i
       ELSE pc' = "sample" /\ i' = i + 1
    /\ UNCHANGED <<file, data, j, heroes_with_items, old_format_count, new_format_count,
                   removed_items_found, total_inventory_items, err>>

\* line 48 raises, after line 47 has printed
SampleFail ==
    /\ pc = "sample"
    /\ i <= Len(SampleSlice(data))
    /\ SampleRaises(SampleSlice(data)[i])
    /\ out' = Append(out, [k |-> "sample_user", u |-> i])
    /\ pc' = "failed"
    /\ err' = Raise("KeyError", 48, i)
    /\ UNCHANGED <<file, data, i, j, heroes_with_items, old_format_count, new_format_count,
                   removed_items_found, total_inventory_items>>

Next ==
    \/ Load
    \/ LoadFail
    \/ PrintTotal
    \/ CensusHero
    \/ CensusFail
    \/ CensusSlot
    \/ Summary
    \/ InventoryTotal
    \/ InventoryFail
    \/ SampleHeader
    \/ SampleHero
    \/ SampleFail

Spec == Init /\ [][Next]_vars

(* ---------------- reference notions, stated on the document ---------------- *)
\* a value that is not one of the falsy placeholders None, "", {} and 0
TruthyValue(v) == ~(v.t = "null" \/ (v.t = "str" /\ v.s = "") \/
                    (v.t = "dict" /\ v.keys = {}) \/ (v.t = "num" /\ v.n = 0))
LegacyValue(v) == v.t = "str" /\ v.s # ""
RecordValue(v) == v.t = "dict" /\ v.keys # {}
OtherValue(v) == TruthyValue(v) /\ v.t # "str" /\ v.t # "dict"
\* the identifier of the value is in the removed set
RemovedIdentifier(v) ==
    \/ v.t = "str" /\ v.s \in REMOVED_ITEMS
    \/ v.t = "dict" /\ "id" \in v.keys /\ v.id \in REMOVED_ITEMS

EqPositions(d) ==
    UNION { { <<u, sl>> : sl \in 1..Len(d[u].equipped.slots) } : u \in 1..Len(d) }
ValAt(d, p) == d[p[1]].equipped.slots[p[2]]
InvPositions(d) ==
    UNION { { <<u, m>> : m \in 1..Len(d[u].inventory.items) } : u \in 1..Len(d) }

RemovedPositions(d) ==
    { p \in EqPositions(d) : TruthyValue(ValAt(d, p)) /\ RemovedIdentifier(ValAt(d, p)) }
LegacyPositions(d) == { p \in EqPositions(d) : LegacyValue(ValAt(d, p)) }
RecordPositions(d) == { p \in EqPositions(d) : RecordValue(ValAt(d, p)) }
TruthyPositions(d) == { p \in EqPositions(d) : TruthyValue(ValAt(d, p)) }
HeroesWithTruthy(d) == { u \in 1..Len(d) : \E p \in TruthyPositions(d) : p[1] = u }

\* the census loop has run to its end
CensusComplete ==
    \/ pc \in { "inventory", "sample_header", "sample", "done" }
    \/ pc = "failed" /\ err.line \in { 41, 48 }

LinesOf(kind) == { x \in 1..Len(out) : out[x].k = kind }

\* positions of the equipped values the census has passed so far
Visited ==
    { p \in EqPositions(data) : p[1] < i \/ (pc = "slots" /\ p[1] = i /\ p[2] < j) }

(* ---------------- C1 ---------------- *)
\* C1: the printed 'Removed items still present' count equals the number of
\* truthy equipped values whose identifier (the string itself, or the `id`
\* of a record) is in the removed set, and the match list holds exactly one
\* (user_id, slot_name, raw_value) entry per such value, the raw value
\* being the original string or the whole record.
C1_RemovedCount ==
    /\ \A x \in LinesOf("removed_count") :
          out[x].n = Cardinality(RemovedPositions(data))
    /\ CensusComplete =>
          /\ LinesOf("removed_count") # {}
          /\ Len(removed_items_found) = Cardinality(RemovedPositions(data))
          /\ \A p \in RemovedPositions(data) :
                Cardinality({ m \in 1..Len(removed_items_found) :
                    removed_items_found[m] = <<p[1], p[2], ValAt(data, p)>> }) = 1

C1_Witness ==
    /\ pc = "done"
    /\ \E p, q \in RemovedPositions(data) :
          ValAt(data, p).t = "str" /\ ValAt(data, q).t = "dict"

(* ---------------- C3 ---------------- *)
\* C3 (as stated): at the end of the census the old-format count equals the
\* number of string equipped values and the new-format count the number of
\* structured-record equipped values, over all heroes and slots.
C3_AllStringsAndRecordsCounted ==
    CensusComplete =>
        /\ old_format_count =
              Cardinality({ p \in EqPositions(data) : ValAt(data, p).t = "str" })
        /\ new_format_count =
              Cardinality({ p \in EqPositions(data) : ValAt(data, p).t = "dict" })

\* C3 (amended): at the end of the census the old-format count equals the
\* number of non-empty string equipped values and the new-format count the
\* number of non-empty record equipped values; the empty string and the
\* empty record are falsy placeholders and are counted in neither.
C3_TruthyStringsAndRecordsCounted ==
    CensusComplete =>
        /\ old_format_count = Cardinality(LegacyPositions(data))
        /\ new_format_count = Cardinality(RecordPositions(data))

C3_Witness ==
    /\ pc = "done"
    /\ old_format_count + new_format_count = 1
    /\ \E p \in EqPositions(data) : ValAt(data, p) = Str("") \/ ValAt(data, p) = Dict({}, "")

(* ---------------- C7 ---------------- *)
C7_Others == { p \in Visited : OtherValue(ValAt(data, p)) }

C7_Counted ==
    pc \in { "census", "slots" } =>
        /\ old_format_count + new_format_count
              <= Cardinality({ p \in Visited : TruthyValue(ValAt(data, p)) })
        /\ (old_format_count + new_format_count
              = Cardinality({ p \in Visited : TruthyValue(ValAt(data, p)) }))
           <=> (C7_Others = {})

C7_SkipStep ==
    (pc = "slots" /\ OtherValue(data[i].equipped.slots[j])) =>
        /\ old_format_count' = old_format_count
        /\ new_format_count' = new_format_count
        /\ removed_items_found' = removed_items_found
        /\ out' = out
        /\ pc' # "failed"

\* C7: a truthy equipped value that is neither a string nor a record is
\* silently skipped (no counter changes, no match, no output), so throughout
\* the census old-format + new-format <= truthy values visited so far, with
\* equality exactly when no such value has been visited.
C7_OtherShapeSkipped == [] C7_Counted /\ [][C7_SkipStep]_vars

C7_Witness ==
    /\ pc \in { "census", "slots" }
    /\ C7_Others # {}
    /\ old_format_count + new_format_count > 0

(* ---------------- C10 ---------------- *)
\* C10: the heroes-with-items counter equals the number of heroes with at
\* least one truthy equipped value of any shape, and the heroes skipped for
\* having none contribute nothing: the counters and the matches are those
\* of all heroes and slots.
C10_HeroesWithItems ==
    /\ pc \in { "census", "slots" } =>
          heroes_with_items =
             Cardinality({ u \in HeroesWithTruthy(data) : u < i \/ (pc = "slots" /\ u = i) })
    /\ CensusComplete =>
          /\ heroes_with_items = Cardinality(HeroesWithTruthy(data))
          /\ \A x \in LinesOf("heroes_with_items") :
                out[x].n = Cardinality(HeroesWithTruthy(data))
          /\ old_format_count + new_format_count =
                Cardinality(LegacyPositions(data) \cup RecordPositions(data))
          /\ { <<m[1], m[2]>> : m \in { removed_items_found[x] :
                  x \in 1..Len(removed_items_found) } } = RemovedPositions(data)

C10_Witness ==
    /\ pc = "done"
    /\ \E u \in HeroesWithTruthy(data) :
          \A p \in TruthyPositions(data) : p[1] = u => OtherValue(ValAt(data, p))
    /\ \E u \in 1..Len(data) :
          u \notin HeroesWithTruthy(data) /\ data[u].equipped.slots # <<>>

(* ---------------- C2 ---------------- *)
Phase(kind) ==
    CASE kind = "total" -> 1
      [] kind = "old_format" -> 2
      [] kind = "heroes_with_items" -> 3
      [] kind = "old_count" -> 4
      [] kind = "new_count" -> 5
      [] kind = "removed_count" -> 6
      [] kind = "removed_item" -> 7
      [] kind = "inventory_total" -> 8
      [] kind = "sample_header" -> 9
      [] OTHER -> 10

Before(p, q) == p[1] < q[1] \/ (p[1] = q[1] /\ p[2] < q[2])

\* C2: the output is ordered total line, OLD FORMAT diagnostics in discovery
\* order (hero order, then slot order), census summary (heroes-with-items,
\* old count, new count, removed count, removed-item details in discovery
\* order), inventory total, sample header, at most 3 sample blocks; no OLD
\* FORMAT line follows a summary line.
C2_OutputOrder ==
    /\ out # <<>> => out[1].k = "total"
    /\ \A a, b \in 1..Len(out) :
          a < b =>
             /\ Phase(out[a].k) <= Phase(out[b].k)
             /\ Phase(out[a].k) = Phase(out[b].k) => Phase(out[a].k) \in { 2, 7, 10 }
             /\ (out[a].k = out[b].k /\ out[a].k \in { "old_format", "removed_item" })
                   => Before(<<out[a].u, out[a].slot>>, <<out[b].u, out[b].slot>>)
    /\ \A x \in LinesOf("old_format") :
          /\ <<out[x].u, out[x].slot>> \in LegacyPositions(data)
          /\ out[x].v = ValAt(data, <<out[x].u, out[x].slot>>)
    /\ pc \in { "census", "slots" } =>
          Cardinality(LinesOf("old_format")) =
             Cardinality(LegacyPositions(data) \cap Visited)
    /\ pc = "done" =>
          /\ \A kind \in { "total", "heroes_with_items", "old_count", "new_count",
                           "removed_count", "inventory_total", "sample_header" } :
                Cardinality(LinesOf(kind)) = 1
          /\ Cardinality(LinesOf("old_format")) = Cardinality(LegacyPositions(data))
          /\ Cardinality(LinesOf("removed_item")) = Cardinality(RemovedPositions(data))
          /\ Cardinality(LinesOf("sample_user")) <= 3

C2_Witness ==
    /\ pc = "done"
    /\ Cardinality(LinesOf("old_format")) >= 2
    /\ Cardinality(LinesOf("removed_item")) >= 2
    /\ Cardinality(LinesOf("sample_user")) >= 2

(* ---------------- C4 ---------------- *)
\* C4 (as stated): a run that ends in failure has produced no report output,
\* and no record after the failing one has been processed.
C4_NoPartialReport ==
    pc = "failed" =>
        /\ out = <<>>
        /\ \A p \in Visited : err.at > 0 => p[1] <= err.at

C4_State ==
    /\ pc = "done" =>
          \A u \in 1..Len(data) :
             data[u].equipped.kind = "map" /\ data[u].inventory.kind = "list"
    /\ (pc = "failed" /\ err.line \in { 3, 4 }) => out = <<>>
    /\ (pc = "failed" /\ err.line = 17) =>
          /\ data[err.at].equipped.kind # "map"
          /\ \A u \in 1..(err.at - 1) : data[u].equipped.kind = "map"
          /\ out[1] = [k |-> "total", n |-> Len(data)]
          /\ \A x \in 2..Len(out) : out[x].k = "old_format" /\ out[x].u < err.at
          /\ Cardinality(LinesOf("old_format")) =
                Cardinality({ p \in LegacyPositions(data) : p[1] < err.at })
    /\ (pc = "failed" /\ err.line = 41) =>
          /\ data[err.at].inventory.kind # "list"
          /\ \A u \in 1..Len(data) : data[u].equipped.kind = "map"
          /\ Visited = EqPositions(data)
          /\ Cardinality(LinesOf("removed_count")) = 1
          /\ LinesOf("inventory_total") = {}
          /\ LinesOf("sample_header") = {}

\* C4 (amended): a failure is fatal and ends the run where it is raised, so
\* no run with a malformed record completes and nothing follows the failure;
\* what was printed before it stays: nothing for a load failure, the total
\* line and the diagnostics of the heroes before the failing one for a
\* census failure, the total line, the diagnostics and the whole census
\* summary (every record having been through the census) for an inventory
\* failure.
C4_FatalAtPointOfFailure == [] C4_State /\ [][pc # "failed"]_vars

C4_Witness ==
    /\ pc = "failed"
    /\ err.line = 41
    /\ err.at < Len(data)
    /\ LinesOf("old_format") # {}

(* ---------------- C5 ---------------- *)
IdlessRecord(v) == v.t = "dict" /\ v.keys # {} /\ "id" \notin v.keys

\* C5 (as stated): once the census has met a truthy record without an `id`
\* attribute the run is in the failed state.
C5_IdlessRecordFails ==
    (\E p \in Visited : IdlessRecord(ValAt(data, p))) => pc = "failed"

C5_Step ==
    (pc = "slots" /\ IdlessRecord(data[i].equipped.slots[j])) =>
        /\ new_format_count' = new_format_count + 1
        /\ old_format_count' = old_format_count
        /\ removed_items_found' = removed_items_found
        /\ out' = out
        /\ pc' \in { "census", "slots" }

\* C5 (amended): a truthy record without an `id` attribute is not a failure:
\* its missing id reads as none, which is not in the removed set, so the
\* value is counted as new format, adds no match, prints nothing and the
\* census goes on.
C5_IdlessRecordCounted == [][C5_Step]_vars

C5_Witness ==
    /\ pc = "done"
    /\ \E p \in EqPositions(data) : IdlessRecord(ValAt(data, p))
    /\ new_format_count >= 1
    /\ removed_items_found = <<>>

(* ---------------- C6 ---------------- *)
InvRemovedPositions(d) ==
    { p \in InvPositions(d) : RemovedIdentifier(d[p[1]].inventory.items[p[2]]) }

\* C6 (as stated): every inventory item whose identifier is in the removed
\* set is recorded as a removed-item match and included in the count.
C6_InventoryFlagged ==
    pc = "done" =>
        /\ \A p \in InvRemovedPositions(data) :
              \E m \in 1..Len(removed_items_found) :
                 /\ removed_items_found[m][1] = p[1]
                 /\ removed_items_found[m][3] = data[p[1]].inventory.items[p[2]]
        /\ Len(removed_items_found) >=
              Cardinality(RemovedPositions(data)) + Cardinality(InvRemovedPositions(data))

\* C6 (amended): removed items are flagged in equipped slots only: every
\* removed-item detail line shows an equipped slot and its whole raw value,
\* there is one per equipped match, and a removed item lying in an inventory
\* is neither recorded nor counted (it only adds to the inventory total).
C6_EquippedOnly ==
    CensusComplete =>
        /\ \A x \in LinesOf("removed_item") :
              /\ <<out[x].u, out[x].slot>> \in RemovedPositions(data)
              /\ out[x].v = ValAt(data, <<out[x].u, out[x].slot>>)
        /\ Cardinality(LinesOf("removed_item")) = Cardinality(RemovedPositions(data))
        /\ \A x \in LinesOf("removed_count") :
              out[x].n = Cardinality(LinesOf("removed_item"))

C6_Witness ==
    /\ pc = "done"
    /\ RemovedPositions(data) # {}
    /\ \E p \in InvRemovedPositions(data) :
          \A q \in RemovedPositions(data) : q[1] # p[1]

(* ---------------- C8 ---------------- *)
C8_Count == IF Len(data) < 3 THEN Len(data) ELSE 3
C8_Header == CHOOSE x \in 1..Len(out) : out[x].k = "sample_header"

\* C8: for N heroes the sample section prints exactly min(N, 3) blocks, for
\* the first min(N, 3) heroes in mapping order, each showing the hero's
\* energy over maxEnergy, or over 3 when the record has no maxEnergy.
C8_SampleBlocks ==
    pc = "done" =>
        /\ Len(out) = C8_Header + 4 * C8_Count
        /\ \A m \in 1..C8_Count :
              /\ out[C8_Header + 4 * (m - 1) + 1] = [k |-> "sample_user", u |-> m]
              /\ out[C8_Header + 4 * (m - 1) + 2] =
                    [k |-> "sample_stats", level |-> data[m].level.v,
                     energy |-> data[m].energy.v,
                     maxEnergy |-> IF data[m].maxEnergy.present
                                   THEN data[m].maxEnergy.v ELSE 3]

C8_Witness ==
    /\ pc = "done"
    /\ Len(data) = 4
    /\ \E a, b \in 1..3 : data[a].maxEnergy.present /\ ~data[b].maxEnergy.present

(* ---------------- C9 ---------------- *)
\* C9: the printed inventory total is the sum of the inventory lengths of
\* all heroes, whether or not they have a truthy equipped value and whether
\* or not their inventory is empty.
C9_InventoryTotal ==
    /\ \A x \in LinesOf("inventory_total") :
          out[x].n = Cardinality(InvPositions(data))
    /\ pc \in { "sample_header", "sample", "done" } =>
          /\ LinesOf("inventory_total") # {}
          /\ total_inventory_items = Cardinality(InvPositions(data))

C9_Witness ==
    /\ pc = "done"
    /\ \E u \in 1..Len(data) :
          u \notin HeroesWithTruthy(data) /\ data[u].inventory.items # <<>>
    /\ \E u \in 1..Len(data) : data[u].inventory.items = <<>>
====
